---- MODULE Spec2Model ----
(***************************************************************************)
(* pyaccess: the facade AccessDatabase (core.py) and the two backends      *)
(* MdbtoolsBackend and PyodbcBackend, as one state machine.                *)
(*                                                                         *)
(* One object of one kind is open on one database.  Each handler of the    *)
(* object is one action; the caller is single-threaded, so a handler runs  *)
(* to its return (or raise) and the caller then consumes the outcome.      *)
(* Strings are sequences of one-character strings; None is the empty       *)
(* sequence and a present value x is <<x>>.                                *)
(***************************************************************************)
EXTENDS Integers, Sequences, FiniteSets, TLC

(* ------------------------------------------------------------------ *)
(* Bounds of the model                                                  *)
(* ------------------------------------------------------------------ *)
\* most rows a table holds
MaxRows == 2

\* largest chunk size a caller passes
MaxChunk == 2

\* most lines the enumeration of the tables puts out
MaxLines == 2

\* the longest filter text handed to _convert_where_clause on its own
MaxFilter == 4

(* ------------------------------------------------------------------ *)
(* Option values, characters and strings                                *)
(* ------------------------------------------------------------------ *)
None == <<>>

Some(x) == <<x>>

Get(o) == o[1]

SQ == "'"

DQ == "\""

\* str.startswith
StartsWith(s, p) == Len(s) >= Len(p) /\ SubSeq(s, 1, Len(p)) = p

RECURSIVE LStrip(_)
LStrip(s) == IF s # <<>> /\ s[1] = " " THEN LStrip(Tail(s)) ELSE s

RECURSIVE RStrip(_)
RStrip(s) == IF s # <<>> /\ s[Len(s)] = " " THEN RStrip(SubSeq(s, 1, Len(s) - 1)) ELSE s

\* str.strip
Strip(s) == RStrip(LStrip(s))

\* str.replace("==", "="): left to right over non-overlapping occurrences
RECURSIVE ReplaceEqEq(_)
ReplaceEqEq(s) ==
    IF Len(s) < 2 THEN s
    ELSE IF s[1] = "=" /\ s[2] = "="
         THEN <<"=">> \o ReplaceEqEq(SubSeq(s, 3, Len(s)))
         ELSE <<s[1]>> \o ReplaceEqEq(Tail(s))

\* str.replace('"', "'")
ReplaceDQ(s) == [i \in 1..Len(s) |-> IF s[i] = DQ THEN SQ ELSE s[i]]

\* _convert_where_clause: the same two replacements in all three classes
ConvertWhere(where) == ReplaceDQ(ReplaceEqEq(where))

\* a translation that leaves the double quotes in place
ConvertWhereKeepsQuotes(where) == ReplaceEqEq(where)

\* the copy of core.py
ConvertWhereCore(where) == ReplaceDQ(ReplaceEqEq(where))

\* the copy of pyodbc_backend.py
ConvertWherePyodbc(where) == ReplaceDQ(ReplaceEqEq(where))

\* the copy of mdbtools_backend.py
ConvertWhereMdbtools(where) == ReplaceDQ(ReplaceEqEq(where))

\* self._convert_where_clause(where) on an object of class k
ConvertWhereOf(k, where) ==
    CASE k = "core" -> ConvertWhereCore(where)
      [] k = "odbc" -> ConvertWherePyodbc(where)
      [] OTHER -> ConvertWhereMdbtools(where)

\* [x for x in s if x in keep]
RECURSIVE Keep(_, _)
Keep(s, keep) ==
    IF s = <<>> THEN <<>>
    ELSE IF s[1] \in keep THEN <<s[1]>> \o Keep(Tail(s), keep) ELSE Keep(Tail(s), keep)

Range(s) == {s[i] : i \in 1..Len(s)}

Min(a, b) == IF a < b THEN a ELSE b

Max(a, b) == IF a > b THEN a ELSE b

\* cols.index(c), 1-based (0 if absent)
FirstIndex(cols, c) ==
    IF c \in Range(cols)
    THEN CHOOSE i \in 1..Len(cols) : cols[i] = c /\ \A j \in 1..(i - 1) : cols[j] # c
    ELSE 0

\* the sequences over S of length at most n
SeqsUpTo(S, n) == UNION {[1..k -> S] : k \in 0..n}

(* ------------------------------------------------------------------ *)
(* The database file and the external tool / driver                     *)
(* ------------------------------------------------------------------ *)
\* table names
T == <<"t">>

U == <<"u">>

\* a name no database holds
Z == <<"z">>

\* strings: p, = and ==
VP == <<"p">>

VE1 == <<"=">>

VE2 == <<"=", "=">>

\* cell values
Vals == {VP, VE1}

\* a table as the tool or driver reports it: its columns in native order
\* and its rows in source order; <<>> columns: no column is reported
EmptyTable == [cols |-> <<>>, rows |-> <<>>]

TablesAB == {[cols |-> <<"a", "b">>, rows |-> r] : r \in SeqsUpTo({<<v, VP>> : v \in Vals}, MaxRows)}

TableU == [cols |-> <<"b">>, rows |-> <<<<VP>>>>]

\* the databases: the enumeration lists t then u
Databases ==
    {[listing |-> <<T, U>>, tab |-> (T :> t @@ U :> TableU)] : t \in TablesAB \cup {EmptyTable}}

Kinds == {"core", "mdb", "odbc"}

\* the error taxonomy of exceptions.py
Taxonomy == {"AccessDatabaseError", "DatabaseConnectionError", "TableNotFoundError"}

\* a DataFrame: column labels and rows
EmptyFrame == [cols |-> <<>>, rows |-> <<>>]

\* df[cols]: the listed columns, in the listed order
Project(df, cols) ==
    [cols |-> cols,
     rows |-> [i \in 1..Len(df.rows) |->
                 [k \in 1..Len(cols) |-> df.rows[i][FirstIndex(df.cols, cols[k])]]]]

RECURSIVE KeepRows(_, _, _)
KeepRows(rows, idx, lit) ==
    IF rows = <<>> THEN <<>>
    ELSE IF rows[1][idx] = lit
         THEN <<rows[1]>> \o KeepRows(Tail(rows), idx, lit)
         ELSE KeepRows(Tail(rows), idx, lit)

\* identifiers a filter may name
Idents == {"a", "b", "x"}

\* A comparison  <ident> <op> <quote><literal><quote>  as an execution
\* engine reads it; anything else is a syntax error of that engine.
ParseCmp(w, op) ==
    LET n == Len(op)
        shaped == /\ Len(w) >= n + 5
                  /\ w[1] \in Idents
                  /\ w[2] = " "
                  /\ SubSeq(w, 3, n + 2) = op
                  /\ w[n + 3] = " "
                  /\ w[n + 4] \in {SQ, DQ}
                  /\ w[Len(w)] = w[n + 4]
                  /\ w[n + 4] \notin Range(SubSeq(w, n + 5, Len(w) - 1))
    IN IF shaped
       THEN [ok |-> TRUE, col |-> w[1], lit |-> SubSeq(w, n + 5, Len(w) - 1)]
       ELSE [ok |-> FALSE, col |-> "x", lit |-> <<>>]

\* rows of df that satisfy the parsed comparison p; err when the text did
\* not parse or names a column df does not have
EvalParsed(df, p) ==
    IF ~p.ok \/ p.col \notin Range(df.cols)
    THEN [err |-> TRUE, df |-> EmptyFrame]
    ELSE [err |-> FALSE,
          df |-> [cols |-> df.cols,
                  rows |-> KeepRows(df.rows, FirstIndex(df.cols, p.col), p.lit)]]

EvalFilter(df, w, op) == EvalParsed(df, ParseCmp(w, op))

\* DataFrame.head(n): n < 0 drops the last -n rows
HeadRows(df, n) ==
    [cols |-> df.cols,
     rows |-> IF n >= 0 THEN SubSeq(df.rows, 1, Min(n, Len(df.rows)))
              ELSE SubSeq(df.rows, 1, Max(0, Len(df.rows) + n))]

\* The Access engine on  SELECT [TOP top] cols FROM [table] [WHERE where]:
\* the filter is applied to the table, then TOP, then the select list.
SqlColumns(cut, cols) == IF cols = None THEN cut ELSE Project(cut, Get(cols))

SqlSelected(f, cols, top) ==
    IF f.err \/ (top # None /\ Get(top) <= 0)
    THEN [err |-> TRUE, df |-> EmptyFrame]
    ELSE [err |-> FALSE,
          df |-> SqlColumns(IF top = None THEN f.df ELSE HeadRows(f.df, Get(top)), cols)]

ExecSql(d, table, cols, top, where) ==
    SqlSelected(IF where = None THEN [err |-> FALSE, df |-> d.tab[table]]
                ELSE EvalFilter(d.tab[table], Get(where), <<"=">>),
                cols, top)

(* ------------------------------------------------------------------ *)
(* Failures of the external tool or driver                              *)
(* ------------------------------------------------------------------ *)
\* At most one external call of a handler fails.  at: the call (the table
\* enumeration, the schema read of the idx-th table, the data read, the
\* write of the destination file).  mode: "rc" a non-zero exit status of
\* the mdbtools utility, "rc0" the same with the follow-up row count
\* failing too, "raise" a timeout or an exception of the tool or driver.
NoFault == [at |-> "none", mode |-> "ok", idx |-> 0]

Faults ==
    {NoFault}
    \cup [at : {"tables", "data"}, mode : {"rc", "raise"}, idx : {0}]
    \cup [at : {"schema"}, mode : {"rc", "rc0", "raise"}, idx : {1, 2}]
    \cup [at : {"write"}, mode : {"raise"}, idx : {0}]

(* ------------------------------------------------------------------ *)
(* Construction                                                         *)
(* ------------------------------------------------------------------ *)
\* What a constructor meets outside the program: whether the file exists,
\* platform.system(), the outcome of "mdb-tables --version" before and
\* after the installation, the outcome of the installation, and whether
\* the driver connects.
Envs ==
    [exists : BOOLEAN,
     system : {"linux", "darwin", "windows"},
     probe : {"rc0", "rc1", "timeout", "notfound", "oserror"},
     install : {"ok", "failed"},
     recheck : {"rc0", "rc1", "raise"},
     connect : {"ok", "error"}]

NoEnv ==
    [exists |-> TRUE, system |-> "linux", probe |-> "rc0", install |-> "ok",
     recheck |-> "rc0", connect |-> "ok"]

\* the outcome of a constructor: the class of the object returned ("none"
\* if it raised), the exception, the classes whose constructors ran
Built(k, tried) == [kind |-> k, err |-> "none", tried |-> tried]

Failed(e, tried) == [kind |-> "none", err |-> e, tried |-> tried]

\* AccessDatabase.__init__
NewCore(env) ==
    IF ~env.exists THEN Failed("DatabaseConnectionError", <<"core">>)
    ELSE IF env.connect = "error" THEN Failed("DatabaseConnectionError", <<"core">>)
    ELSE Built("core", <<"core">>)

\* MdbtoolsBackend._install_mdbtools: the exception it raises, or "none"
InstallMdbtools(env) ==
    IF env.system \in {"linux", "darwin"} /\ env.install = "ok"
    THEN "none" ELSE "DatabaseConnectionError"

\* MdbtoolsBackend.__init__
NewMdb(env) ==
    IF ~env.exists THEN Failed("DatabaseConnectionError", <<"mdb">>)
    ELSE IF env.probe = "rc0" THEN Built("mdb", <<"mdb">>)
    ELSE IF env.probe = "oserror" THEN Failed("OSError", <<"mdb">>)
    ELSE IF InstallMdbtools(env) # "none" THEN Failed("DatabaseConnectionError", <<"mdb">>)
    ELSE IF env.recheck # "rc0" THEN Failed("DatabaseConnectionError", <<"mdb">>)
    ELSE Built("mdb", <<"mdb">>)

\* an engine made without looking for the file
CreateEngineUnchecked(env) ==
    IF env.connect = "error" THEN "DatabaseConnectionError" ELSE "none"

\* PyodbcBackend._create_engine: the exception it raises, or "none"
CreateEngine(env) ==
    IF ~env.exists THEN "DatabaseConnectionError"
    ELSE IF env.connect = "error" THEN "DatabaseConnectionError"
    ELSE "none"

\* PyodbcBackend.__init__
NewOdbc(env) ==
    IF CreateEngine(env) # "none" THEN Failed(CreateEngine(env), <<"odbc">>)
    ELSE Built("odbc", <<"odbc">>)

\* the second candidate's outcome, reached after the first one failed
After(first, r) == [r EXCEPT !.tried = first.tried \o r.tried]

\* a selection that hands the first candidate's failure to the caller
CreateBackendNoFallback(env) ==
    IF env.system = "linux" THEN NewMdb(env) ELSE NewOdbc(env)

\* create_backend
CreateBackend(env) ==
    IF env.system = "linux"
    THEN IF NewMdb(env).err = "none" THEN NewMdb(env) ELSE After(NewMdb(env), NewOdbc(env))
    ELSE NewOdbc(env)

\* the four ways to get an object
Entries == {"AccessDatabase", "MdbtoolsBackend", "PyodbcBackend", "create_backend"}

Construct(entry, env) ==
    CASE entry = "AccessDatabase" -> NewCore(env)
      [] entry = "MdbtoolsBackend" -> NewMdb(env)
      [] entry = "PyodbcBackend" -> NewOdbc(env)
      [] OTHER -> CreateBackend(env)

(* ------------------------------------------------------------------ *)
(* The object: caches, connection, engine                               *)
(* ------------------------------------------------------------------ *)
\* the fields after __init__ returned
InitObject(k) ==
    [tc |-> None, sc |-> None,
     conn |-> IF k = "core" THEN "open" ELSE "none",
     eng |-> IF k = "odbc" THEN "live" ELSE "none"]

\* what a handler hands back: the object's fields, the exception raised
\* ("none" if it returned) and the value returned
Ret(st, v) == [st |-> st, err |-> "none", v |-> v]

Raise(st, e) == [st |-> st, err |-> e, v |-> <<>>]

RECURSIVE UserLines(_)
\* [line.strip() for line in lines if line.strip() and not line.startswith("MSys")]
UserLines(lines) ==
    IF lines = <<>> THEN <<>>
    ELSE IF Strip(lines[1]) # <<>> /\ ~StartsWith(lines[1], <<"M", "S", "y", "s">>)
         THEN <<Strip(lines[1])>> \o UserLines(Tail(lines))
         ELSE UserLines(Tail(lines))

RECURSIVE UserNames(_)
\* [row.table_name for row in tables if not row.table_name.startswith('MSys')]
UserNames(names) ==
    IF names = <<>> THEN <<>>
    ELSE IF ~StartsWith(names[1], <<"M", "S", "y", "s">>)
         THEN <<names[1]>> \o UserNames(Tail(names))
         ELSE UserNames(Tail(names))

\* get_tables of the three classes
GetTablesNoCache(k, d, st, fault) ==
    IF k = "core" /\ st.conn # "open" THEN Raise(st, "AttributeError")
    ELSE IF k = "odbc" /\ st.eng # "live" THEN Raise(st, "NoInspectionAvailable")
    ELSE IF fault.at = "tables"
         THEN Raise(st, IF k = "mdb" THEN "AccessDatabaseError" ELSE "DriverError")
    ELSE LET names == CASE k = "core" -> UserNames(d.listing)
                        [] k = "mdb" -> UserLines(d.listing)
                        [] OTHER -> d.listing
         IN Ret([st EXCEPT !.tc = Some(names)], names)

GetTables(k, d, st, fault) ==
    IF st.tc # None THEN Ret(st, Get(st.tc)) ELSE GetTablesNoCache(k, d, st, fault)

\* ColumnInfo and TableInfo of models.py
ColumnInfo(name, type) == [name |-> name, type |-> type, nullable |-> TRUE]

TableInfo(name, columns) == [name |-> name, columns |-> columns]

\* f"col_{i}"
FakeName(i) == <<"col_0", "col_1", "col_2", "col_3", "col_4", "col_5">>[i + 1]

\* len(result.stdout.strip().split("\n")) for the export of a table: the
\* header line and one line per row; one (empty) line when there is no output
StdoutLineCount(tab) == IF tab.cols = <<>> THEN 1 ELSE 1 + Len(tab.rows)

\* _get_table_row_count: lines of the export minus the header, 0 on any failure
GetTableRowCount(d, name, fails) ==
    IF fails THEN 0 ELSE Max(0, StdoutLineCount(d.tab[name]) - 1)

\* the loop of _load_schema_cache from the i-th table on; acc: the cache so far
RECURSIVE LoadLoop(_, _, _, _, _, _)
LoadLoop(k, d, names, i, acc, fault) ==
    IF i > Len(names) THEN [sc |-> acc, err |-> "none"]
    ELSE LET n == names[i]
             hit == fault.at = "schema" /\ fault.idx = i
             reported == d.tab[n].cols
         IN IF hit /\ (fault.mode = "raise" \/ k # "mdb")
            THEN [sc |-> acc, err |-> IF k = "mdb" THEN "AccessDatabaseError" ELSE "DriverError"]
            ELSE IF hit
            THEN LET cnt == GetTableRowCount(d, n, fault.mode = "rc0")
                     cols == [j \in 1..cnt |-> ColumnInfo(FakeName(j - 1), "Unknown")]
                 IN LoadLoop(k, d, names, i + 1, (n :> TableInfo(n, cols)) @@ acc, fault)
            ELSE LET cols == [j \in 1..Len(reported) |->
                                ColumnInfo(reported[j], IF k = "mdb" THEN "Text" ELSE "VARCHAR")]
                 IN IF k = "mdb" \/ cols # <<>>
                    THEN LoadLoop(k, d, names, i + 1, (n :> TableInfo(n, cols)) @@ acc, fault)
                    ELSE LoadLoop(k, d, names, i + 1, acc, fault)

\* _load_schema_cache: the cache is set to {} first and filled table by table
SchemaLoaded(st, r) ==
    IF r.err = "none" THEN Ret([st EXCEPT !.sc = Some(r.sc)], <<>>)
    ELSE Raise([st EXCEPT !.sc = Some(r.sc)], r.err)

LoadSchemaCache(k, d, st, fault) ==
    IF k = "core" /\ st.conn # "open"
    THEN Raise([st EXCEPT !.sc = Some(<<>>)], "AttributeError")
    ELSE IF k = "odbc" /\ st.eng # "live"
    THEN Raise([st EXCEPT !.sc = Some(<<>>)], "NoInspectionAvailable")
    ELSE SchemaLoaded(st, LoadLoop(k, d, Get(st.tc), 1, <<>>, fault))

\* return self._schema_cache[table_name], l the outcome of the cache load
CacheLookup(l, name) ==
    IF l.err # "none" THEN l
    ELSE IF name \notin DOMAIN Get(l.st.sc) THEN Raise(l.st, "KeyError")
    ELSE Ret(l.st, Get(l.st.sc)[name])

\* get_table_info without the membership test
InfoUnchecked(k, d, g, name, fault) ==
    IF g.err # "none" THEN g
    ELSE CacheLookup(IF g.st.sc = None THEN LoadSchemaCache(k, d, g.st, fault)
                     ELSE Ret(g.st, <<>>),
                     name)

\* get_table_info after its get_tables() call, g the outcome of that call
InfoListed(k, d, g, name, fault) ==
    IF g.err # "none" THEN g
    ELSE IF name \notin Range(g.v) THEN Raise(g.st, "TableNotFoundError")
    ELSE CacheLookup(IF g.st.sc = None THEN LoadSchemaCache(k, d, g.st, fault)
                     ELSE Ret(g.st, <<>>),
                     name)

\* get_table_info of the three classes
GetTableInfo(k, d, st, name, fault) == InfoListed(k, d, GetTables(k, d, st, fault), name, fault)

(* ------------------------------------------------------------------ *)
(* query_table                                                          *)
(* ------------------------------------------------------------------ *)
\* the test  arg is not None
IsNotNone(arg, empty) == arg # None

\* Python truthiness of an optional argument: None, [], "" and 0 are false
Truthy(arg, empty) == arg # None /\ Get(arg) # empty

Names(info) == [j \in 1..Len(info.columns) |-> info.columns[j].name]

\* valid_requested_cols = [col for col in columns if col in valid_columns]
ValidRequested(columns, info) == Keep(Get(columns), Range(Names(info)))

\* pd.read_sql(sql, engine, chunksize=size) as a list of chunks.  For a
\* result without rows pandas yields either nothing (before 1.3) or one
\* chunk without rows (from 1.3 on): yieldsEmpty says which.
RECURSIVE SplitRows(_, _)
SplitRows(rows, size) ==
    IF rows = <<>> THEN <<>>
    ELSE <<SubSeq(rows, 1, Min(size, Len(rows)))>>
         \o SplitRows(SubSeq(rows, Min(size, Len(rows)) + 1, Len(rows)), size)

ChunkFrames(cols, parts) == [i \in 1..Len(parts) |-> [cols |-> cols, rows |-> parts[i]]]

ReadSqlChunks(df, size, yieldsEmpty) ==
    IF df.rows = <<>>
    THEN IF yieldsEmpty THEN <<df>> ELSE <<>>
    ELSE ChunkFrames(df.cols, SplitRows(df.rows, size))

RECURSIVE ConcatRows(_)
ConcatRows(chunks) ==
    IF chunks = <<>> THEN <<>> ELSE chunks[1].rows \o ConcatRows(Tail(chunks))

\* pd.concat(chunks, ignore_index=True)
Concat(chunks) == [cols |-> chunks[1].cols, rows |-> ConcatRows(chunks)]

\* if chunks: return pd.concat(chunks) else: return pd.DataFrame()
ConcatOrEmpty(chunks) == IF chunks # <<>> THEN Concat(chunks) ELSE EmptyFrame

\* _get_engine: the engine is created when there is none
GetEngine(k, st) == IF k = "core" THEN [st EXCEPT !.eng = "live"] ELSE st

\* the try block of query_table in core.py and pyodbc_backend.py, r the
\* engine's answer to the statement: any exception becomes AccessDatabaseError
ReadSql(k, st, r, chunk, fault, ye) ==
    IF GetEngine(k, st).eng # "live" \/ fault.at = "data" \/ r.err
    THEN Raise(GetEngine(k, st), "AccessDatabaseError")
    ELSE IF chunk # None
    THEN Ret(GetEngine(k, st), ConcatOrEmpty(ReadSqlChunks(r.df, Get(chunk), ye)))
    ELSE Ret(GetEngine(k, st), r.df)

\* the select list, the TOP clause and the WHERE clause of the statement
SelectList(columns, info) ==
    IF Truthy(columns, <<>>) THEN Some(ValidRequested(columns, info)) ELSE None

TopClause(limit) == IF Truthy(limit, 0) THEN limit ELSE None

WhereClause(where) == IF Truthy(where, <<>>) THEN Some(ConvertWhere(Get(where))) ELSE None

\* query_table after get_table_info, i the outcome of that call
SqlQueryValid(k, d, i, name, columns, where, limit, chunk, fault, ye) ==
    IF i.err # "none" THEN i
    ELSE IF Truthy(columns, <<>>) /\ ValidRequested(columns, i.v) = <<>>
    THEN Ret(i.st, EmptyFrame)
    ELSE ReadSql(k, i.st,
                 ExecSql(d, name, SelectList(columns, i.v), TopClause(limit), WhereClause(where)),
                 chunk, fault, ye)

\* query_table after its get_tables() call, g the outcome of that call
SqlQueryListed(k, d, g, name, columns, where, limit, chunk, fault, ye) ==
    IF g.err # "none" THEN g
    ELSE IF name \notin Range(g.v) THEN Raise(g.st, "TableNotFoundError")
    ELSE SqlQueryValid(k, d, GetTableInfo(k, d, g.st, name, fault),
                       name, columns, where, limit, chunk, fault, ye)

\* query_table of core.py and pyodbc_backend.py
SqlQueryTable(k, d, st, name, columns, where, limit, chunk, fault, ye) ==
    SqlQueryListed(k, d, GetTables(k, d, st, fault), name, columns, where, limit, chunk, fault, ye)

\* mdbtools_backend.py: if limit: df = df.head(limit)
MdbLimit(df, limit) == IF Truthy(limit, 0) THEN HeadRows(df, Get(limit)) ELSE df

MdbFiltered(st, f, limit) ==
    IF f.err THEN Raise(st, "AccessDatabaseError") ELSE Ret(st, MdbLimit(f.df, limit))

\* if where: df = df.query(where): the untranslated filter, on df as it is
MdbFilter(st, df, where, limit) ==
    IF ~Truthy(where, <<>>) THEN Ret(st, MdbLimit(df, limit))
    ELSE MdbFiltered(st, EvalFilter(df, Get(where), <<"=", "=">>), limit)

\* if columns: ..., i the outcome of get_table_info
MdbSelect(df, i, columns, where, limit) ==
    IF i.err # "none" THEN i
    ELSE IF ValidRequested(columns, i.v) = <<>> THEN Ret(i.st, EmptyFrame)
    ELSE IF ~(Range(ValidRequested(columns, i.v)) \subseteq Range(df.cols))
    THEN Raise(i.st, "KeyError")
    ELSE MdbFilter(i.st, Project(df, ValidRequested(columns, i.v)), where, limit)

\* the try block of query_table in mdbtools_backend.py: the whole table is
\* exported and parsed (no output: read_csv raises), then columns, filter
\* and limit are applied in Python
MdbQueryBody(d, st, name, columns, where, limit, fault) ==
    IF fault.at = "data" \/ d.tab[name].cols = <<>> THEN Raise(st, "Exception")
    ELSE IF ~Truthy(columns, <<>>) THEN MdbFilter(st, d.tab[name], where, limit)
    ELSE MdbSelect(d.tab[name], GetTableInfo("mdb", d, st, name, fault), columns, where, limit)

\* except Exception as e: raise AccessDatabaseError(...)
MdbWrap(b) == IF b.err # "none" THEN Raise(b.st, "AccessDatabaseError") ELSE b

MdbQueryListed(d, g, name, columns, where, limit, fault) ==
    IF g.err # "none" THEN g
    ELSE IF name \notin Range(g.v) THEN Raise(g.st, "TableNotFoundError")
    ELSE MdbWrap(MdbQueryBody(d, g.st, name, columns, where, limit, fault))

\* query_table of mdbtools_backend.py
MdbQueryTable(d, st, name, columns, where, limit, fault) ==
    MdbQueryListed(d, GetTables("mdb", d, st, fault), name, columns, where, limit, fault)

QueryTable(k, d, st, name, columns, where, limit, chunk, fault, ye) ==
    IF k = "mdb" THEN MdbQueryTable(d, st, name, columns, where, limit, fault)
    ELSE SqlQueryTable(k, d, st, name, columns, where, limit, chunk, fault, ye)

(* ------------------------------------------------------------------ *)
(* get_table_count                                                      *)
(* ------------------------------------------------------------------ *)
\* return len(df), q the outcome of query_table(table_name)
LenOf(q) == IF q.err # "none" THEN q ELSE Ret(q.st, Len(q.v.rows))

CountListed(k, d, g, name, fault) ==
    IF g.err # "none" THEN g
    ELSE IF name \notin Range(g.v) THEN Raise(g.st, "TableNotFoundError")
    ELSE IF k = "mdb" THEN LenOf(MdbQueryTable(d, g.st, name, None, None, None, fault))
    ELSE IF (k = "core" /\ g.st.conn # "open") \/ (k = "odbc" /\ g.st.eng # "live")
    THEN Raise(g.st, "AttributeError")
    ELSE IF fault.at = "data" THEN Raise(g.st, "DriverError")
    ELSE Ret(g.st, Len(d.tab[name].rows))

\* get_table_count of the three classes
GetTableCount(k, d, st, name, fault) == CountListed(k, d, GetTables(k, d, st, fault), name, fault)

(* ------------------------------------------------------------------ *)
(* export_table_to_csv, close, __exit__                                 *)
(* ------------------------------------------------------------------ *)
\* a handler's outcome together with the destination file (None: no file)
Written(r, f) == [st |-> r.st, err |-> r.err, v |-> r.v, file |-> f]

\* df.to_csv(output_path, index=False): a header line and the rows; q the
\* outcome that produced df
ToCsv(q, file, fault) ==
    IF q.err # "none" THEN Written(q, file)
    ELSE IF fault.at = "write" THEN Written(Raise(q.st, "OSError"), file)
    ELSE Written(Ret(q.st, <<>>), Some([header |-> q.v.cols, rows |-> q.v.rows]))

\* a chunk loop that opens the file for writing at every chunk: the file
\* holds the last chunk alone
WriteLastChunk(st, chunks, header, file, fault) ==
    IF fault.at = "write" THEN Written(Raise(st, "OSError"), file)
    ELSE IF chunks # <<>>
    THEN Written(Ret(st, <<>>),
                 Some([header |-> chunks[1].cols, rows |-> chunks[Len(chunks)].rows]))
    ELSE Written(Ret(st, <<>>), Some([header |-> header, rows |-> <<>>]))

\* the chunk loop of core.py: the first chunk is written with its header,
\* the others are appended; without any chunk the header alone is written
WriteChunks(st, chunks, header, file, fault) ==
    IF fault.at = "write" THEN Written(Raise(st, "OSError"), file)
    ELSE IF chunks # <<>>
    THEN Written(Ret(st, <<>>), Some([header |-> chunks[1].cols, rows |-> ConcatRows(chunks)]))
    ELSE Written(Ret(st, <<>>), Some([header |-> header, rows |-> <<>>]))

\* pd.read_sql(sql, engine, chunksize=chunksize) outside any try block
ChunkedRead(st, r, header, file, chunk, fault, ye) ==
    IF fault.at = "data" \/ r.err THEN Written(Raise(st, "DatabaseError"), file)
    ELSE WriteChunks(st, ReadSqlChunks(r.df, Get(chunk), ye), header, file, fault)

\* a header that repeats the requested list whether its columns exist or not
HeaderAsRequested(columns, info) ==
    IF Truthy(columns, <<>>) THEN Get(columns) ELSE Names(info)

\* the header written when no chunk arrived
HeaderIfEmpty(columns, info) ==
    IF Truthy(columns, <<>>)
    THEN (IF ValidRequested(columns, info) # <<>> THEN ValidRequested(columns, info)
          ELSE Get(columns))
    ELSE Names(info)

ChunkedValid(d, i, file, name, columns, where, limit, chunk, fault, ye) ==
    IF i.err # "none" THEN Written(i, file)
    ELSE IF Truthy(columns, <<>>) /\ ValidRequested(columns, i.v) = <<>>
    THEN ToCsv(Ret(i.st, [cols |-> Get(columns), rows |-> <<>>]), file, fault)
    ELSE ChunkedRead(i.st,
                     ExecSql(d, name, SelectList(columns, i.v), TopClause(limit), WhereClause(where)),
                     HeaderIfEmpty(columns, i.v), file, chunk, fault, ye)

ChunkedListed(d, g, file, name, columns, where, limit, chunk, fault, ye) ==
    IF g.err # "none" THEN Written(g, file)
    ELSE IF name \notin Range(g.v) THEN Written(Raise(g.st, "TableNotFoundError"), file)
    ELSE ChunkedValid(d, GetTableInfo("core", d, g.st, name, fault),
                      file, name, columns, where, limit, chunk, fault, ye)

\* core.py, export with a chunk size: the engine is fetched first
ChunkedExport(d, st, file, name, columns, where, limit, chunk, fault, ye) ==
    ChunkedListed(d, GetTables("core", d, GetEngine("core", st), fault),
                  file, name, columns, where, limit, chunk, fault, ye)

\* export_table_to_csv of the three classes
ExportTable(k, d, st, file, name, columns, where, limit, chunk, fault, ye) ==
    IF k = "core" /\ chunk # None
    THEN ChunkedExport(d, st, file, name, columns, where, limit, chunk, fault, ye)
    ELSE ToCsv(QueryTable(k, d, st, name, columns, where, limit, None, fault, ye), file, fault)

\* a close that drops the connection and keeps the engine
CloseKeepsEngine(k, st) ==
    IF k = "mdb" THEN st ELSE [st EXCEPT !.conn = "none"]

\* close of the three classes
CloseObject(k, st) ==
    IF k = "mdb" THEN st ELSE [st EXCEPT !.conn = "none", !.eng = "none"]

\* __exit__(exc_type, exc_val, exc_tb): calls close() and returns None, so
\* the with statement does not suppress the exception
ExitSwallows(k, st) == [st |-> CloseObject(k, st), closes |-> 1, suppress |-> TRUE]

DunderExit(k, st) == [st |-> CloseObject(k, st), closes |-> 1, suppress |-> FALSE]

(* ------------------------------------------------------------------ *)
(* The caller's arguments                                               *)
(* ------------------------------------------------------------------ *)
\* the text  <ident> <op> <quote><literal><quote>
Cmp(c, op, q, v) == <<c, " ">> \o op \o <<" ", q>> \o v \o <<q>>

\* "a +++"
Malformed == <<"a", " ", "+", "+", "+">>

TableArgs == {T, U, Z}

ColumnArgs == {None, Some(<<>>), Some(<<"x">>), Some(<<"b", "x", "a">>)}

\* literals of equality filters: p, == and a double quote
Lits == {VP, VE2, <<DQ>>}

EqFilters == {Cmp("a", <<"=", "=">>, SQ, v) : v \in Lits} \cup {Cmp("b", <<"=", "=">>, SQ, VP)}

WhereArgs ==
    {None, Some(<<>>), Some(Malformed)}
    \cup {Some(w) : w \in EqFilters}

LimitArgs == {None, Some(0), Some(1)}

ChunkArgs(k) == IF k = "core" THEN {None} \cup {Some(n) : n \in 1..MaxChunk} ELSE {None}

\* the failures that can happen to the external calls operation op makes
FaultsNow(k, st, op) ==
    {f \in Faults :
        \/ f = NoFault
        \/ /\ f.at = "tables" /\ st.tc = None
           /\ (k = "mdb" \/ f.mode = "raise")
        \/ /\ f.at = "schema" /\ st.sc = None /\ op \in {"describe", "query", "export"}
           /\ (k = "mdb" \/ f.mode = "raise")
        \/ /\ f.at = "data" /\ op \in {"query", "count", "export"}
           /\ (k = "mdb" \/ f.mode = "raise")
        \/ f.at = "write" /\ op = "export"}

(* ------------------------------------------------------------------ *)
(* geological/: accessors with a fixed table and a caller's key         *)
(* ------------------------------------------------------------------ *)
\* the fixed tables
Collar == <<"collar">>

Survey == <<"survey">>

Litho == <<"litho">>

Alteration == <<"alteration">>

\* The per-key accessors: the table each one reads and the column its
\* filter names.  Column a stands for hole_id, column b for block,
\* lith_code and the other code columns.
Accessors ==
    {"get_survey_for_hole", "get_lithology_for_hole", "get_lithology_by_code",
     "get_holes_in_block", "get_alteration_for_hole"}

TableOf(acc) ==
    CASE acc = "get_survey_for_hole" -> Survey
      [] acc \in {"get_lithology_for_hole", "get_lithology_by_code"} -> Litho
      [] acc = "get_holes_in_block" -> Collar
      [] OTHER -> Alteration

ColumnOf(acc) == IF acc \in {"get_lithology_by_code", "get_holes_in_block"} THEN "b" ELSE "a"

\* f"hole_id == '{hole_id}'"
KeyFilter(col, key) == Cmp(col, <<"=", "=">>, SQ, key)

\* self.db.query_table(table, where=f"{col} == '{key}'") on the facade
KeyQuery(d, st, table, col, key, fault) ==
    QueryTable("core", d, st, table, None, Some(KeyFilter(col, key)), None, None, fault, TRUE)

\* if len(df) > 0: return df.iloc[0]; return None
FirstRow(q) ==
    IF q.err # "none" THEN q
    ELSE Ret(q.st, IF Len(q.v.rows) > 0 THEN Some(q.v.rows[1]) ELSE None)

\* CollarData.get_hole_by_id
GetHoleById(d, st, key, fault) == FirstRow(KeyQuery(d, st, Collar, "a", key, fault))

\* get_complete_hole_data: the three accessors in the order of the dict
\* display; a failure of the tool or driver is met by the first of them
WithLithology(c, s, l) ==
    IF l.err # "none" THEN l
    ELSE Ret(l.st, [collar |-> c.v, survey |-> s.v, lithology |-> l.v])

WithSurvey(d, key, c, s) ==
    IF s.err # "none" THEN s
    ELSE WithLithology(c, s, KeyQuery(d, s.st, Litho, "a", key, NoFault))

WithCollar(d, key, c) ==
    IF c.err # "none" THEN c
    ELSE WithSurvey(d, key, c, KeyQuery(d, c.st, Survey, "a", key, NoFault))

GetCompleteHoleData(d, st, key, fault) == WithCollar(d, key, GetHoleById(d, st, key, fault))

\* a file of the output directory: output_path / f"{hole_id}_{category}.csv"
HoleFile(key, category, header, rows) ==
    [key |-> key, category |-> category, header |-> header, rows |-> rows]

\* an export that writes the collar file whether a row matched or not
HoleFilesAlways(key, collarCols, data) ==
    <<HoleFile(key, "collar", collarCols, data.collar),
      HoleFile(key, "survey", data.survey.cols, data.survey.rows),
      HoleFile(key, "lithology", data.lithology.cols, data.lithology.rows)>>

\* the files export_hole_to_csv writes: pd.DataFrame([collar]) only if
\* collar is not None, then the survey and the lithology frames
HoleFiles(key, collarCols, data) ==
    (IF data.collar # None
     THEN <<HoleFile(key, "collar", collarCols, data.collar)>> ELSE <<>>)
    \o <<HoleFile(key, "survey", data.survey.cols, data.survey.rows),
         HoleFile(key, "lithology", data.lithology.cols, data.lithology.rows)>>

\* export_hole_to_csv, c the outcome of get_complete_hole_data; a failing
\* write is the first one
HolesWritten(d, key, c, dir, fault) ==
    IF c.err # "none" THEN Written(c, dir)
    ELSE IF fault.at = "write" THEN Written(Raise(c.st, "OSError"), dir)
    ELSE Written(Ret(c.st, <<>>), HoleFiles(key, d.tab[Collar].cols, c.v))

ExportHoleToCsv(d, st, key, dir, fault) ==
    HolesWritten(d, key, GetCompleteHoleData(d, st, key, fault), dir, fault)

\* hole identifiers and codes a caller passes: p and = (cell values), ==,
\* a single quote, a double quote, and q, which no table holds
Keys == {VP, VE1, VE2, <<SQ>>, <<DQ>>, <<"q">>}

\* collar, survey, litho and alteration with the columns a and b
GeoDatabases ==
    {[listing |-> <<Collar, Survey, Litho, Alteration>>,
      tab |-> (Collar :> c @@ Survey :> s @@ Litho :> s @@ Alteration :> s)] :
        c \in TablesAB, s \in TablesAB}

(* ------------------------------------------------------------------ *)
(* State                                                                *)
(* ------------------------------------------------------------------ *)
VARIABLES
    kind,        \* the class of the object
    db,          \* the database file it is open on
    yields,      \* whether pandas yields a chunk for a result without rows
    obj,         \* _tables_cache, _schema_cache, _connection, _engine
    file,        \* the destination file of exports
    pc,          \* "idle", or "returned" while the caller holds an outcome
    last,        \* the call that returned last and the exception it raised
    blk,         \* "in" a with block or "out" of one
    res          \* the value that call returned

vars == <<kind, db, yields, obj, file, pc, last, blk, res>>

\* the connection and the engine an object holds
Held(st) == [conn |-> st.conn, eng |-> st.eng]

NoLast ==
    [op |-> "none", name |-> None, columns |-> None, where |-> None, limit |-> None,
     chunk |-> None, fault |-> NoFault, raised |-> "none", closes |-> 0, err |-> "none",
     before |-> InitObject("mdb"), entry |-> "none", env |-> NoEnv, tried |-> <<>>,
     key |-> <<>>, first |-> <<>>]

\* the dict of get_complete_hole_data before any accessor ran
NoHole == [collar |-> None, survey |-> EmptyFrame, lithology |-> EmptyFrame]

\* what the caller holds of a call's value: the names of get_tables, the
\* TableInfo of get_table_info, the DataFrame of query_table, the number of
\* get_table_count, the dict of get_complete_hole_data, the text of
\* _convert_where_clause; the other slots stay as they are here
NoResult ==
    [names |-> <<>>, info |-> TableInfo(<<>>, <<>>), frame |-> EmptyFrame, count |-> 0,
     hole |-> NoHole, sql |-> <<>>]

Result(op, v) ==
    CASE op = "list" -> [NoResult EXCEPT !.names = v]
      [] op = "describe" -> [NoResult EXCEPT !.info = v]
      [] op = "query" -> [NoResult EXCEPT !.frame = v]
      [] op = "count" -> [NoResult EXCEPT !.count = v]
      [] op = "accessor" -> [NoResult EXCEPT !.frame = v]
      [] op = "hole_by_id" -> [NoResult EXCEPT !.hole.collar = v]
      [] op = "complete" -> [NoResult EXCEPT !.hole = v]
      [] op = "translate" -> [NoResult EXCEPT !.sql = v]
      [] OTHER -> NoResult

Init ==
    /\ kind \in Kinds
    /\ db \in Databases
    /\ yields \in (IF kind = "core" THEN BOOLEAN ELSE {TRUE})
    /\ obj = InitObject(kind)
    /\ file = None
    /\ pc = "idle"
    /\ last = NoLast
    /\ blk = "out"
    /\ res = NoResult

\* the handler returned or raised: the caller now holds the outcome
Returned(r, call) ==
    /\ obj' = r.st
    /\ last' = [call EXCEPT !.err = r.err]
    /\ res' = IF r.err = "none" THEN Result(call.op, r.v) ELSE NoResult
    /\ pc' = "returned"
    /\ UNCHANGED <<kind, db, yields, blk>>

Exported(r, call) == Returned(r, call) /\ file' = r.file

ListTables ==
    /\ pc = "idle"
    /\ \E f \in FaultsNow(kind, obj, "list") :
         /\ Returned(GetTables(kind, db, obj, f), [NoLast EXCEPT !.op = "list", !.fault = f])
         /\ UNCHANGED file

DescribeTable ==
    /\ pc = "idle"
    /\ \E n \in TableArgs, f \in FaultsNow(kind, obj, "describe") :
         /\ Returned(GetTableInfo(kind, db, obj, n, f),
                     [NoLast EXCEPT !.op = "describe", !.name = n, !.fault = f])
         /\ UNCHANGED file

DoQueryTable ==
    /\ pc = "idle"
    /\ \E n \in TableArgs, c \in ColumnArgs, w \in WhereArgs, l \in LimitArgs,
          ch \in ChunkArgs(kind), f \in FaultsNow(kind, obj, "query") :
         /\ Returned(QueryTable(kind, db, obj, n, c, w, l, ch, f, yields),
                     [NoLast EXCEPT !.op = "query", !.name = n, !.columns = c, !.where = w,
                                    !.limit = l, !.chunk = ch, !.fault = f])
         /\ UNCHANGED file

CountRows ==
    /\ pc = "idle"
    /\ \E n \in TableArgs, f \in FaultsNow(kind, obj, "count") :
         /\ Returned(GetTableCount(kind, db, obj, n, f),
                     [NoLast EXCEPT !.op = "count", !.name = n, !.fault = f])
         /\ UNCHANGED file

DoExportTable ==
    /\ pc = "idle"
    /\ \E n \in TableArgs, c \in ColumnArgs, w \in WhereArgs, l \in LimitArgs,
          ch \in ChunkArgs(kind), f \in FaultsNow(kind, obj, "export") :
         Exported(ExportTable(kind, db, obj, file, n, c, w, l, ch, f, yields),
                  [NoLast EXCEPT !.op = "export", !.name = n, !.columns = c, !.where = w,
                                 !.limit = l, !.chunk = ch, !.fault = f])

\* close() called by the caller
Close ==
    /\ pc = "idle"
    /\ obj' = CloseObject(kind, obj)
    /\ last' = [NoLast EXCEPT !.op = "close", !.before = obj]
    /\ res' = NoResult
    /\ pc' = "returned"
    /\ UNCHANGED <<kind, db, yields, file, blk>>

\* the caller takes the outcome, removes the exported file and goes on
Consume ==
    /\ pc = "returned"
    /\ pc' = "idle"
    /\ last' = NoLast
    /\ res' = NoResult
    /\ file' = None
    /\ UNCHANGED <<kind, db, yields, obj, blk>>

Left(x, exc) ==
    /\ obj' = x.st
    /\ last' = [NoLast EXCEPT !.op = "exit", !.raised = exc,
                              !.err = IF x.suppress THEN "none" ELSE exc,
                              !.closes = x.closes, !.before = obj]

\* with obj: __enter__ returns the object
EnterBlock ==
    /\ pc = "idle"
    /\ blk = "out"
    /\ blk' = "in"
    /\ UNCHANGED <<kind, db, yields, obj, file, pc, last, res>>

\* Control leaves the block: normally (exc = "none"), with the exception
\* the last call raised, or with one the block's own code raised.  The with
\* statement calls __exit__ once and re-raises unless it returns a true
\* value.  The caller then holds: raised, the exception that left the block;
\* err, the one that reached the caller; closes, the close() calls __exit__ made.
LeaveBlock ==
    /\ blk = "in"
    /\ \E exc \in {"none", "BodyError"} \cup {last.err} :
         Left(DunderExit(kind, obj), exc)
    /\ blk' = "out"
    /\ pc' = "returned"
    /\ res' = NoResult
    /\ UNCHANGED <<kind, db, yields, file>>

Next ==
    \/ ListTables
    \/ DescribeTable
    \/ DoQueryTable
    \/ CountRows
    \/ DoExportTable
    \/ Close
    \/ Consume
    \/ EnterBlock
    \/ LeaveBlock

Spec == Init /\ [][Next]_vars

(* ------------------------------------------------------------------ *)
(* Construction: the caller has no object and asks for one             *)
(* ------------------------------------------------------------------ *)
\* the fields of no object
NoObject == [tc |-> None, sc |-> None, conn |-> "none", eng |-> "none"]

InitNew ==
    /\ kind = "none"
    /\ db \in Databases
    /\ yields = TRUE
    /\ obj = NoObject
    /\ file = None
    /\ pc = "idle"
    /\ last = NoLast
    /\ blk = "out"
    /\ res = NoResult

\* the caller holds what a constructor returned or raised
Constructed(entry, env, r) ==
    /\ kind' = r.kind
    /\ obj' = IF r.err = "none" THEN InitObject(r.kind) ELSE NoObject
    /\ last' = [NoLast EXCEPT !.op = "new", !.entry = entry, !.env = env,
                              !.tried = r.tried, !.err = r.err]
    /\ pc' = "returned"
    /\ UNCHANGED <<db, yields, file, blk, res>>

NewAccessDatabase ==
    /\ pc = "idle"
    /\ \E env \in Envs : Constructed("AccessDatabase", env, Construct("AccessDatabase", env))

NewMdbtoolsBackend ==
    /\ pc = "idle"
    /\ \E env \in Envs : Constructed("MdbtoolsBackend", env, Construct("MdbtoolsBackend", env))

NewPyodbcBackend ==
    /\ pc = "idle"
    /\ \E env \in Envs : Constructed("PyodbcBackend", env, Construct("PyodbcBackend", env))

NewBackend ==
    /\ pc = "idle"
    /\ \E env \in Envs : Constructed("create_backend", env, Construct("create_backend", env))

\* the caller closes and drops the object it got, or handles the exception
Drop ==
    /\ pc = "returned"
    /\ kind' = "none"
    /\ obj' = NoObject
    /\ last' = NoLast
    /\ pc' = "idle"
    /\ UNCHANGED <<db, yields, file, blk, res>>

NextNew ==
    \/ NewAccessDatabase
    \/ NewMdbtoolsBackend
    \/ NewPyodbcBackend
    \/ NewBackend
    \/ Drop

SpecNew == InitNew /\ [][NextNew]_vars

(* ------------------------------------------------------------------ *)
(* Enumeration: what the tool or the driver may list                    *)
(* ------------------------------------------------------------------ *)
\* a system table's name
MSys == <<"M", "S", "y", "s">>

\* the lines of "mdb-tables -1", the table_name of the rows of
\* cursor.tables(tableType='TABLE'), the names of inspector.get_table_names()
RawLines ==
    {T, <<>>, MSys, <<" ">> \o MSys, MSys \o <<" ">>, <<" ">> \o U \o <<" ">>}

RawDatabases ==
    {[listing |-> l, tab |-> (T :> EmptyTable @@ U :> TableU)] : l \in SeqsUpTo(RawLines, MaxLines)}

InitList ==
    /\ kind \in Kinds
    /\ db \in RawDatabases
    /\ yields = TRUE
    /\ obj = InitObject(kind)
    /\ file = None
    /\ pc = "idle"
    /\ last = NoLast
    /\ blk = "out"
    /\ res = NoResult

NextList ==
    \/ ListTables
    \/ Close
    \/ Consume

SpecList == InitList /\ [][NextList]_vars

(* ------------------------------------------------------------------ *)
(* The two backends of backend/ on one database                        *)
(* ------------------------------------------------------------------ *)
\* column lists: those of ColumnArgs and one that leaves out column a
PairColumnArgs == ColumnArgs \cup {Some(<<"b">>)}

InitBoth ==
    /\ kind \in {"mdb", "odbc"}
    /\ db \in Databases
    /\ yields = TRUE
    /\ obj = InitObject(kind)
    /\ file = None
    /\ pc = "idle"
    /\ last = NoLast
    /\ blk = "out"
    /\ res = NoResult

\* query_table of the backend, which takes no chunk size
QueryOnBackend ==
    /\ pc = "idle"
    /\ \E n \in TableArgs, c \in PairColumnArgs, w \in WhereArgs, l \in LimitArgs,
          f \in FaultsNow(kind, obj, "query") :
         /\ Returned(QueryTable(kind, db, obj, n, c, w, l, None, f, yields),
                     [NoLast EXCEPT !.op = "query", !.name = n, !.columns = c, !.where = w,
                                    !.limit = l, !.fault = f])
         /\ UNCHANGED file

NextBoth ==
    \/ QueryOnBackend
    \/ Consume

SpecBoth == InitBoth /\ [][NextBoth]_vars

(* ------------------------------------------------------------------ *)
(* The caller edits what a call returned                                *)
(* ------------------------------------------------------------------ *)
\* what a caller can do to a TableInfo, a dataclass that is not frozen:
\* info.columns.clear(), info.columns.pop(), info.name = "z"
Edits == {"clear", "pop", "rename"}

Edited(info, e) ==
    CASE e = "clear" -> [info EXCEPT !.columns = <<>>]
      [] e = "pop" -> [info EXCEPT !.columns = SubSeq(@, 1, Len(@) - 1)]
      [] OTHER -> [info EXCEPT !.name = Z]

\* get_tables returned self._tables_cache.copy(): the caller appends to its
\* own list
EditList ==
    /\ pc = "returned"
    /\ last.op = "list" /\ last.err = "none"
    /\ res' = [res EXCEPT !.names = Append(@, Z)]
    /\ last' = [last EXCEPT !.op = "edited"]
    /\ UNCHANGED <<kind, db, yields, obj, file, pc, blk>>

\* get_table_info returned self._schema_cache[table_name] itself: the
\* object the caller edits is the cache's entry
EditDescriptor ==
    /\ pc = "returned"
    /\ last.op = "describe" /\ last.err = "none"
    /\ \E e \in Edits :
         /\ e = "pop" => res.info.columns # <<>>
         /\ res' = [res EXCEPT !.info = Edited(@, e)]
         /\ obj' = [obj EXCEPT !.sc = Some([Get(@) EXCEPT ![last.name] = Edited(@, e)])]
    /\ last' = [last EXCEPT !.op = "edited"]
    /\ UNCHANGED <<kind, db, yields, file, pc, blk>>

NextAlias ==
    \/ ListTables
    \/ DescribeTable
    \/ EditList
    \/ EditDescriptor
    \/ Consume

SpecAlias == Init /\ [][NextAlias]_vars

(* ------------------------------------------------------------------ *)
(* GeologicalDatabase and the accessor classes                          *)
(* ------------------------------------------------------------------ *)
\* a GeologicalDatabase is an AccessDatabase; file holds the files of the
\* output directory
InitGeo ==
    /\ kind = "core"
    /\ db \in GeoDatabases
    /\ yields = TRUE
    /\ obj = InitObject(kind)
    /\ file = None
    /\ pc = "idle"
    /\ last = NoLast
    /\ blk = "out"
    /\ res = NoResult

\* one of the per-key accessors
CallAccessor ==
    /\ pc = "idle"
    /\ \E acc \in Accessors, k \in Keys, f \in FaultsNow(kind, obj, "query") :
         /\ Returned(KeyQuery(db, obj, TableOf(acc), ColumnOf(acc), k, f),
                     [NoLast EXCEPT !.op = "accessor", !.entry = acc, !.key = k, !.fault = f])
         /\ UNCHANGED file

CallGetHoleById ==
    /\ pc = "idle"
    /\ \E k \in Keys, f \in FaultsNow(kind, obj, "query") :
         /\ Returned(GetHoleById(db, obj, k, f),
                     [NoLast EXCEPT !.op = "hole_by_id", !.entry = "get_hole_by_id",
                                    !.key = k, !.fault = f])
         /\ UNCHANGED file

CallGetCompleteHoleData ==
    /\ pc = "idle"
    /\ \E k \in Keys, f \in FaultsNow(kind, obj, "query") :
         /\ Returned(GetCompleteHoleData(db, obj, k, f),
                     [NoLast EXCEPT !.op = "complete", !.entry = "get_complete_hole_data",
                                    !.key = k, !.fault = f])
         /\ UNCHANGED file

CallExportHoleToCsv ==
    /\ pc = "idle"
    /\ \E k \in Keys, f \in FaultsNow(kind, obj, "export") :
         Exported(ExportHoleToCsv(db, obj, k, file, f),
                  [NoLast EXCEPT !.op = "export_hole", !.entry = "export_hole_to_csv",
                                 !.key = k, !.fault = f])

NextGeo ==
    \/ CallAccessor
    \/ CallGetHoleById
    \/ CallGetCompleteHoleData
    \/ CallExportHoleToCsv
    \/ Close
    \/ Consume

SpecGeo == InitGeo /\ [][NextGeo]_vars

(* ------------------------------------------------------------------ *)
(* _convert_where_clause on its own                                     *)
(* ------------------------------------------------------------------ *)
\* the characters of the filter texts: the equals sign, the two quotes and
\* a letter
FilterChars == {"=", DQ, SQ, "a"}

Filters == SeqsUpTo(FilterChars, MaxFilter)

\* the caller holds a filter text and an open object of one of the classes
InitWhere ==
    /\ kind \in Kinds
    /\ db \in Databases
    /\ yields = TRUE
    /\ obj = InitObject(kind)
    /\ file = None
    /\ pc = "idle"
    /\ last \in {[NoLast EXCEPT !.where = Some(s)] : s \in Filters}
    /\ blk = "out"
    /\ res = NoResult

\* sql_where = self._convert_where_clause(where)
Translate ==
    /\ pc = "idle"
    /\ pc' = "returned"
    /\ last' = [last EXCEPT !.op = "translate"]
    /\ res' = Result("translate", ConvertWhereOf(kind, Get(last.where)))
    /\ UNCHANGED <<kind, db, yields, obj, file, blk>>

\* the caller hands the text it got to _convert_where_clause once more
TranslateAgain ==
    /\ pc = "returned"
    /\ pc' = "again"
    /\ last' = [last EXCEPT !.first = res.sql]
    /\ res' = Result("translate", ConvertWhereOf(kind, res.sql))
    /\ UNCHANGED <<kind, db, yields, obj, file, blk>>

NextWhere == Translate \/ TranslateAgain

SpecWhere == InitWhere /\ [][NextWhere]_vars

(* ------------------------------------------------------------------ *)
(* Calls with an empty optional argument                                *)
(* ------------------------------------------------------------------ *)
\* columns, where and limit of which at least one is [], "" or 0
EmptyArgs ==
    {a \in [columns : ColumnArgs, where : WhereArgs, limit : LimitArgs] :
        \/ a.columns = Some(<<>>)
        \/ a.where = Some(<<>>)
        \/ a.limit = Some(0)}

QueryWithEmpty ==
    /\ pc = "idle"
    /\ \E n \in TableArgs, a \in EmptyArgs, ch \in ChunkArgs(kind),
          f \in FaultsNow(kind, obj, "query") :
         /\ Returned(QueryTable(kind, db, obj, n, a.columns, a.where, a.limit, ch, f, yields),
                     [NoLast EXCEPT !.op = "query", !.name = n, !.columns = a.columns,
                                    !.where = a.where, !.limit = a.limit, !.chunk = ch,
                                    !.fault = f])
         /\ UNCHANGED file

ExportWithEmpty ==
    /\ pc = "idle"
    /\ \E n \in TableArgs, a \in EmptyArgs, ch \in ChunkArgs(kind),
          f \in FaultsNow(kind, obj, "export") :
         Exported(ExportTable(kind, db, obj, file, n, a.columns, a.where, a.limit, ch, f, yields),
                  [NoLast EXCEPT !.op = "export", !.name = n, !.columns = a.columns,
                                 !.where = a.where, !.limit = a.limit, !.chunk = ch,
                                 !.fault = f])

\* the calls that populate the caches and close the object come between
NextEmpty ==
    \/ ListTables
    \/ DescribeTable
    \/ QueryWithEmpty
    \/ ExportWithEmpty
    \/ Close
    \/ Consume

SpecEmpty == Init /\ [][NextEmpty]_vars

(* ------------------------------------------------------------------ *)
(* Properties                                                           *)
(* ------------------------------------------------------------------ *)
\* the object has not been closed
IsOpen ==
    \/ kind = "mdb"
    \/ kind = "core" /\ obj.conn = "open"
    \/ kind = "odbc" /\ obj.eng = "live"

\* the caller holds the outcome of a call of one of ops
Called(ops) == pc = "returned" /\ last.op \in ops

\* the call's get_tables() returned a list that holds the table it names
OnListed == obj.tc # None /\ last.name \in Range(Get(obj.tc))

\* the call's get_tables() returned a list that does not hold the name
OnUnlisted == obj.tc # None /\ last.name \notin Range(Get(obj.tc))

\* a call on a listed table of an open object during which no call of the
\* tool or driver failed
Sound(ops) == Called(ops) /\ last.fault = NoFault /\ IsOpen /\ OnListed

\* query_table with the arguments of the last call, limit l and no chunk
\* size, made now and meeting no failure
Requery(l) ==
    QueryTable(kind, db, obj, last.name, last.columns, last.where, l, None, NoFault, yields)

\* C1: describeTable, queryTable, countRows and exportToDelimited (with or
\* without a chunk size, whatever the columns, filter and limit) fail with
\* TableNotFoundError, and no other error, for every name that the table
\* list does not hold.
UnknownTableFails ==
    (Called({"describe", "query", "count", "export"}) /\ OnUnlisted)
        => last.err = "TableNotFoundError"

\* a chunked export with a malformed filter and a column list, on a closed
\* facade, named an unknown table and failed with TableNotFoundError
UnknownTableReached ==
    /\ Called({"export"}) /\ OnUnlisted
    /\ last.chunk # None /\ last.where = Some(Malformed) /\ last.columns = Some(<<"x">>)
    /\ ~IsOpen
    /\ last.err = "TableNotFoundError"

\* C2: countRows(t) of a listed table returns a number >= 0 that equals the
\* number of rows of queryTable(t) without columns, filter and limit.
CountEqualsQueryLength ==
    Sound({"count"})
        => /\ last.err = "none"
           /\ res.count \in Nat
           /\ Requery(None).err = "none"
           /\ Len(Requery(None).v.rows) = res.count

NoValidColumnGivesEmpty ==
    (Sound({"query"}) /\ last.chunk = None /\ Truthy(last.columns, <<>>)
     /\ Range(Get(last.columns)) \cap Range(db.tab[last.name].cols) = {})
        => last.err = "none" /\ res.frame.cols = <<>>

\* C5: the columns of a queryTable result are the requested names that exist
\* in the table, in the requested order, and all columns of the table in
\* native order when no columns are requested.
ColumnsAsRequested ==
    (Sound({"query"}) /\ last.chunk = None /\ last.columns # Some(<<>>)
     /\ last.err = "none")
        => res.frame.cols = IF last.columns = None THEN db.tab[last.name].cols
                         ELSE Keep(Get(last.columns), Range(db.tab[last.name].cols))

\* C6: queryTable(t, filter = "c == 'v'") returns exactly the rows of t whose
\* column c equals v, in source order, for every column c of t and every
\* literal v.
EqualityFilterSelects ==
    \A c \in {"a", "b"}, v \in Lits :
        (/\ Sound({"query"}) /\ c \in Range(db.tab[last.name].cols)
         /\ last.columns = None /\ last.limit = None /\ last.chunk = None
         /\ last.where = Some(Cmp(c, <<"=", "=">>, SQ, v)))
            => /\ last.err = "none"
               /\ res.frame.rows = KeepRows(db.tab[last.name].rows,
                                         FirstIndex(db.tab[last.name].cols, c), v)

\* C7: queryTable with a limit returns at most limit rows, the first ones of
\* the (filtered) sequence, and never more rows than countRows counts.
LimitTruncates ==
    (Sound({"query"}) /\ last.chunk = None /\ last.limit # None /\ last.err = "none")
        => /\ Len(res.frame.rows) <= Get(last.limit)
           /\ Requery(None).err = "none"
           /\ res.frame.rows = SubSeq(Requery(None).v.rows, 1,
                                   Min(Get(last.limit), Len(Requery(None).v.rows)))
           /\ GetTableCount(kind, db, obj, last.name, NoFault).err = "none"
           /\ Len(res.frame.rows) <= GetTableCount(kind, db, obj, last.name, NoFault).v

\* C8: queryTable of a listed table with a malformed filter fails with
\* AccessDatabaseError itself: not with TableNotFoundError, not with an
\* exception of a library, and not by returning rows.  (A column list
\* without any valid name is left aside: it returns before the filter is
\* looked at.)
MalformedFilterFails ==
    (/\ Sound({"query"}) /\ last.where = Some(Malformed)
     /\ ~(/\ Truthy(last.columns, <<>>)
          /\ Range(Get(last.columns)) \cap Range(db.tab[last.name].cols) = {}))
        => last.err = "AccessDatabaseError"

\* C9: a failure of listTables, describeTable, queryTable, countRows or
\* exportToDelimited reaches the caller as an error of the taxonomy.
FailuresAreTyped ==
    (Called({"list", "describe", "query", "count", "export"}) /\ IsOpen)
        => last.err \in Taxonomy \cup {"none"}

\* C10: when control leaves a with block, normally or by an exception, the
\* exit calls close() exactly once (the connection and the engine are
\* released) and the exception that left the block reaches the caller.
ExitClosesOnceAndPropagates ==
    Called({"exit"})
        => /\ last.closes = 1
           /\ last.err = last.raised
           /\ kind # "mdb" => (obj.conn = "none" /\ obj.eng = "none")

\* a with block over the facade, left by the AccessDatabaseError of a call
\* made inside it, with the lazily created engine live before the exit
ExitReached ==
    /\ Called({"exit"}) /\ kind = "core"
    /\ last.raised = "AccessDatabaseError" /\ last.err = "AccessDatabaseError"
    /\ obj.conn = "none" /\ obj.eng = "none"

\* C11: close() may be called any number of times in any state; it raises
\* nothing, leaves the connection and the engine fields None and the caches
\* as they were, and a further call changes nothing: when the object held
\* neither a connection nor an engine the call left the state as it was.
\* (last.before: the fields when close() was called.)
CloseIsIdempotent ==
    Called({"close", "exit"})
        => /\ last.op = "close" => last.err = "none"
           /\ obj = [last.before EXCEPT !.conn = "none", !.eng = "none"]
           /\ Held(last.before) = Held(InitObject("mdb")) => obj = last.before
           /\ CloseObject(kind, obj) = obj

\* close() was called, outside a with block and with the caches filled, on a
\* facade that had been closed before and whose engine a later query had
\* created again
ClosedAgainReached ==
    /\ Called({"close"}) /\ kind = "core" /\ blk = "out"
    /\ Held(last.before) = [conn |-> "none", eng |-> "live"]
    /\ obj.tc # None /\ obj.sc # None
    /\ Held(obj) = Held(InitObject("mdb"))

\* the constructors create_backend tries, in its order
Candidates(system) == IF system = "linux" THEN <<"MdbtoolsBackend", "PyodbcBackend">>
                      ELSE <<"PyodbcBackend">>

\* the class of the object a constructor returns
ClassOf(entry) == IF entry = "MdbtoolsBackend" THEN "mdb" ELSE "odbc"

\* C12: AccessDatabase, MdbtoolsBackend, PyodbcBackend and create_backend, on
\* any platform, given the path of a file that does not exist, fail with
\* DatabaseConnectionError and return no object.
MissingFileFails ==
    (Called({"new"}) /\ ~last.env.exists)
        => last.err = "DatabaseConnectionError" /\ kind = "none" /\ obj = NoObject

\* create_backend on Linux, with mdbtools installed and a driver that would
\* connect, was given the path of a missing file: both constructors ran and
\* the caller got DatabaseConnectionError
MissingFileReached ==
    /\ Called({"new"}) /\ ~last.env.exists
    /\ last.entry = "create_backend" /\ last.env.system = "linux"
    /\ last.env.probe = "rc0" /\ last.env.connect = "ok"
    /\ last.tried = <<"mdb", "odbc">>
    /\ last.err = "DatabaseConnectionError"

\* C13: create_backend tries MdbtoolsBackend then PyodbcBackend on Linux and
\* only PyodbcBackend elsewhere; it returns the object of the first
\* constructor that succeeds, whose predecessors all failed and whose
\* failures do not reach the caller; when every constructor fails the caller
\* gets DatabaseConnectionError.
FirstCandidateThatConstructs ==
    (Called({"new"}) /\ last.entry = "create_backend")
        => LET cands == Candidates(last.env.system)
               n == Len(last.tried)
               fails(i) == Construct(cands[i], last.env).err # "none"
           IN  /\ n \in 1..Len(cands)
               /\ \A i \in 1..n : last.tried[i] = ClassOf(cands[i])
               /\ \A i \in 1..(n - 1) : fails(i)
               /\ IF fails(n)
                  THEN n = Len(cands) /\ last.err = "DatabaseConnectionError" /\ kind = "none"
                  ELSE last.err = "none" /\ kind = ClassOf(cands[n])
                       /\ obj = InitObject(kind)

\* on Linux the mdb-tables probe failed with an error the constructor does
\* not handle, and create_backend returned a PyodbcBackend
FallbackReached ==
    /\ Called({"new"}) /\ last.entry = "create_backend"
    /\ last.env.system = "linux" /\ last.env.probe = "oserror"
    /\ last.tried = <<"mdb", "odbc">>
    /\ last.err = "none" /\ kind = "odbc"

\* C14: listTables() fails with DatabaseConnectionError whenever the tool or
\* the driver cannot enumerate the tables (non-zero exit status, timeout or
\* any other exception of the tool or driver).
EnumerationFailureIsConnectionError ==
    (Called({"list"}) /\ last.fault.at = "tables")
        => last.err = "DatabaseConnectionError"

\* C15: no name that listTables() returns, and none the table-list cache
\* holds, starts with "MSys", whatever the enumeration put out (lines with
\* leading or trailing whitespace included), in every backend and state.
NoSystemTableListed ==
    /\ Called({"list"}) => \A i \in 1..Len(res.names) : ~StartsWith(res.names[i], MSys)
    /\ obj.tc # None => \A i \in 1..Len(Get(obj.tc)) : ~StartsWith(Get(obj.tc)[i], MSys)

\* C16: once the schema cache is populated, every name of the table-list
\* cache has an entry in it, tables for which no column is reported
\* included: after a describeTable(n) of a listed n, on an open object and
\* with no failure of the tool or driver, the cache covers the table list
\* and the call returned a descriptor named n.
SchemaCoversTableList ==
    Sound({"describe"})
        => /\ obj.sc # None
           /\ \A n \in Range(Get(obj.tc)) : n \in DOMAIN Get(obj.sc)
           /\ last.err = "none"
           /\ res.info.name = last.name

\* the last call asked for columns and the table it names has none of them
NoneRequestedExists ==
    /\ Truthy(last.columns, <<>>)
    /\ obj.sc # None /\ last.name \in DOMAIN Get(obj.sc)
    /\ ValidRequested(last.columns, Get(obj.sc)[last.name]) = <<>>

\* C17: exportToDelimited without a chunk size writes the header row of the
\* columns of queryTable's result for the same parameters and then exactly
\* that result's rows, the header also when there is no row; when none of
\* the requested columns exists the header is the requested column list.
UnchunkedExportWritesQuery ==
    (/\ Called({"export"}) /\ last.chunk = None /\ last.fault = NoFault
     /\ Requery(last.limit).err = "none")
        => /\ last.err = "none"
           /\ file # None
           /\ Get(file).rows = Requery(last.limit).v.rows
           /\ Get(file).header = IF NoneRequestedExists THEN Get(last.columns)
                                 ELSE Requery(last.limit).v.cols

\* an export with a chunk size, meeting no failure, of a query that
\* query_table answers with a result without rows
ChunkedExportOfNoRows ==
    /\ Called({"export"}) /\ last.chunk # None /\ last.fault = NoFault
    /\ Requery(last.limit).err = "none"
    /\ Requery(last.limit).v.rows = <<>>

\* C18 as stated: exporting with a chunk size a query whose filtered result
\* has no rows creates the file with one header row and no data rows; the
\* header is the requested column list if one was given, else the full
\* column list of the table.
EmptyChunkedExportHeaderAsRequested ==
    ChunkedExportOfNoRows
        => /\ last.err = "none"
           /\ file # None
           /\ Get(file).rows = <<>>
           /\ Get(file).header = IF Truthy(last.columns, <<>>) THEN Get(last.columns)
                                 ELSE Names(Get(obj.sc)[last.name])

\* C18 amended: exporting with a chunk size a query whose filtered result
\* has no rows creates the file with one header row and no data rows; when
\* a non-empty column list was given the header is the requested columns
\* that the table has, in the requested order, or the requested list itself
\* when the table has none of them; else it is the table's full column list.
EmptyChunkedExportHeader ==
    ChunkedExportOfNoRows
        => /\ last.err = "none"
           /\ file # None
           /\ Get(file).rows = <<>>
           /\ Get(file).header =
                 IF ~Truthy(last.columns, <<>>) THEN Names(Get(obj.sc)[last.name])
                 ELSE IF NoneRequestedExists THEN Get(last.columns)
                 ELSE ValidRequested(last.columns, Get(obj.sc)[last.name])

\* a chunked export asked for b, x and a with a filter that no row of a
\* table with rows meets, pandas yielding no chunk: the file holds the
\* header b, a and no row
EmptyChunkedExportReached ==
    /\ ChunkedExportOfNoRows /\ ~yields
    /\ last.columns = Some(<<"b", "x", "a">>)
    /\ last.where # None /\ db.tab[last.name].rows # <<>>
    /\ file = Some([header |-> <<"b", "a">>, rows |-> <<>>])

\* the backend of the other class
Other(k) == IF k = "mdb" THEN "odbc" ELSE "mdb"

\* query_table with the arguments of the last call, made on a new backend
\* of the other class over the same database and meeting no failure
OnOther ==
    QueryTable(Other(kind), db, InitObject(Other(kind)), last.name, last.columns,
               last.where, last.limit, None, NoFault, TRUE)

\* C19: on the same table contents, for every combination of columns,
\* filter and limit (a filter on a column that is not requested included),
\* query_table of MdbtoolsBackend and of PyodbcBackend return the same
\* columns and the same rows, or both fail.
BackendsAgree ==
    (Called({"query"}) /\ last.fault = NoFault /\ kind \in {"mdb", "odbc"})
        => /\ (last.err = "none") = (OnOther.err = "none")
           /\ last.err = "none" => res.frame = OnOther.v

\* C20: table lists and descriptors are immutable once produced: whatever
\* the caller does to a returned list, descriptor or column list, and
\* whatever is called later, the table list and the descriptors that later
\* listTables(), describeTable(n) and the column validation of queryTable
\* read stay as they were when they were produced.
ProducedValuesStay ==
    [][/\ obj.tc # None => obj'.tc = obj.tc
       /\ obj.sc # None => obj'.sc = obj.sc]_vars

\* the rows of a fixed table whose column col holds the key of the last call
Matching(table, col) ==
    KeepRows(db.tab[table].rows, FirstIndex(db.tab[table].cols, col), last.key)

\* a call of one of ops on an open GeologicalDatabase during which no call
\* of the driver failed
GeoSound(ops) == Called(ops) /\ last.fault = NoFault /\ IsOpen

\* C21: for a hole identifier that no collar row carries,
\* get_complete_hole_data raises nothing and returns collar = None with
\* the survey and lithology results; get_hole_by_id returns None exactly
\* when no collar row matches and the first matching row otherwise.
MissingCollarIsAbsent ==
    /\ (GeoSound({"complete"}) /\ Matching(Collar, "a") = <<>>)
          => last.err = "none" /\ res.hole.collar = None
    /\ GeoSound({"hole_by_id"})
          => /\ last.err = "none"
             /\ res.hole.collar = IF Matching(Collar, "a") = <<>> THEN None
                                  ELSE Some(Matching(Collar, "a")[1])

\* C22: for every key string, quote characters included, a per-key accessor
\* returns exactly the rows of its table whose key column equals the key.
AccessorReturnsKeyRows ==
    GeoSound({"accessor"})
        => /\ last.err = "none"
           /\ res.frame.rows = Matching(TableOf(last.entry), ColumnOf(last.entry))

\* the files of the output directory named <key>_<category>.csv for the key
\* of the last call
FilesOf(category) ==
    {i \in 1..Len(file) : file[i].key = last.key /\ file[i].category = category}

\* get_complete_hole_data for the key of the last call, made now and
\* meeting no failure
Recomposed == GetCompleteHoleData(db, obj, last.key, NoFault)

ChunksOfLast ==
    ReadSqlChunks(ExecSql(db, last.name,
                          SelectList(last.columns, Get(obj.sc)[last.name]),
                          TopClause(last.limit), WhereClause(last.where)).df,
                  Get(last.chunk), yields)

\* an export with a chunk size returned and the loop was handed a chunk
ChunkedExportWithChunks ==
    /\ Called({"export"}) /\ last.chunk # None /\ last.err = "none"
    /\ ~NoneRequestedExists
    /\ ChunksOfLast # <<>>

\* C24: when a chunked export's result arrives as k >= 1 chunks the
\* finished file holds one header row, that of the first chunk, followed by
\* the rows of chunks 1..k in order, and it has as many data rows as
\* queryTable returns for the same table, columns, filter and limit.
ChunksWrittenInOrder ==
    ChunkedExportWithChunks
        => /\ file # None
           /\ Get(file).header = ChunksOfLast[1].cols
           /\ Get(file).rows = ConcatRows(ChunksOfLast)
           /\ Requery(last.limit).err = "none"
           /\ Len(Get(file).rows) = Len(Requery(last.limit).v.rows)

\* a chunked export of a table with two rows in chunks of one row wrote
\* both rows after one header
TwoChunksWritten ==
    /\ ChunkedExportWithChunks
    /\ last.chunk = Some(1)
    /\ Len(ChunksOfLast) = 2
    /\ Len(Get(file).rows) = 2

\* C25: a schema discovery that fails part-way leaves no partly filled
\* cache behind: a later describeTable(n) of a listed n that reports
\* columns, on an open object and meeting no failure itself, returns or
\* fails with an error of the taxonomy, and never fails because n is
\* missing from the cache.
FailedDiscoveryLeavesNoCache ==
    (/\ Sound({"describe"})
     /\ db.tab[last.name].cols # <<>>)
        => last.err \in Taxonomy \cup {"none"}

\* one step keeps the caches that are populated, answers listTables from a
\* populated table list, and leaves after a successful describeTable a
\* schema cache with an entry for every table of the list
OncePerLifetime ==
    /\ obj.tc # None => obj'.tc = obj.tc
    /\ obj.sc # None => obj'.sc = obj.sc
    /\ (obj.tc # None /\ pc' = "returned" /\ last'.op = "list")
          => last'.err = "none" /\ res'.names = Get(obj.tc)
    /\ (pc' = "returned" /\ last'.op = "describe" /\ last'.err = "none")
          => /\ obj'.sc # None
             /\ \A n \in Range(Get(obj'.tc)) : n \in DOMAIN Get(obj'.sc)

\* C26: discovery runs at most once per lifetime once it has succeeded:
\* after the first successful listTables() the table list is never
\* enumerated again and every later listTables() returns the same sequence,
\* also when it is empty; after the first successful describeTable the
\* schema cache covers all tables of the list from one pass and is never
\* loaded again.
DiscoveryRunsOnce == [][OncePerLifetime]_vars

\* the number of equals signs that stand directly before position i
RECURSIVE EqBefore(_, _)
EqBefore(s, i) == IF i > 1 /\ s[i - 1] = "=" THEN 1 + EqBefore(s, i - 1) ELSE 0

\* position i holds the second sign of an occurrence of ==, counted from
\* the left without overlap
SecondOfPair(s, i) == s[i] = "=" /\ EqBefore(s, i) % 2 = 1

\* the k-th position of s, from the left, that is not such a second sign
KeptAt(s, k) ==
    CHOOSE i \in 1..Len(s) :
        /\ ~SecondOfPair(s, i)
        /\ Cardinality({j \in 1..(i - 1) : ~SecondOfPair(s, j)}) = k - 1

\* s with every occurrence of == turned into = and every double quote
\* into a single quote, every other character unchanged and in place
EveryOccurrenceReplaced(s) ==
    [k \in 1..Cardinality({i \in 1..Len(s) : ~SecondOfPair(s, i)}) |->
        IF s[KeptAt(s, k)] = DQ THEN SQ ELSE s[KeptAt(s, k)]]

\* the caller holds the translation of the filter text of last.where
Translated == pc = "returned" /\ last.op = "translate"

TranslationIsIdempotent ==
    pc = "again"
        => /\ res.sql = last.first
           /\ \A i \in 1..(Len(last.first) - 1) :
                 ~(last.first[i] = "=" /\ last.first[i + 1] = "=")
           /\ \A i \in 1..Len(last.first) : last.first[i] # DQ

\* C29: once close() has been called on the facade it holds no external
\* resource in any later state: whatever is called after it, with warm or
\* cold caches, _connection and _engine stay None.
ClosedFacadeHoldsNothing ==
    (kind = "core" /\ obj.conn = "none") => obj.eng = "none"

\* an optional argument with its empty value taken for an omitted one
Omitted(arg, empty) == IF arg = Some(empty) THEN None ELSE arg

\* the call that returns in this step is one of op and some optional
\* argument of it has its empty value
ReturnsWithEmpty(op) ==
    /\ pc = "idle" /\ pc' = "returned" /\ last'.op = op
    /\ \/ last'.columns = Some(<<>>)
       \/ last'.where = Some(<<>>)
       \/ last'.limit = Some(0)

\* query_table of this step with the empty arguments left out
QueryOmitting ==
    QueryTable(kind, db, obj, last'.name, Omitted(last'.columns, <<>>),
               Omitted(last'.where, <<>>), Omitted(last'.limit, 0),
               last'.chunk, last'.fault, yields)

\* export_table_to_csv of this step with the empty arguments left out
ExportOmitting ==
    ExportTable(kind, db, obj, file, last'.name, Omitted(last'.columns, <<>>),
                Omitted(last'.where, <<>>), Omitted(last'.limit, 0),
                last'.chunk, last'.fault, yields)

EmptyAsOmitted ==
    /\ ReturnsWithEmpty("query")
          => /\ last'.err = QueryOmitting.err
             /\ obj' = QueryOmitting.st
             /\ QueryOmitting.err = "none" => res'.frame = QueryOmitting.v
    /\ ReturnsWithEmpty("export")
          => /\ last'.err = ExportOmitting.err
             /\ obj' = ExportOmitting.st
             /\ file' = ExportOmitting.file

====
